---- MODULE Spec2Model ----
(***************************************************************************)
(* A model of koinish's container (src/src/core.ts): provider registry,    *)
(* scope-aware resolution (get / getAsync), override, scopes and the       *)
(* disposal pass of shutdown().                                            *)
(*                                                                         *)
(* Values are natural numbers: 0 is `undefined`, n > 0 is the n-th object  *)
(* of the heap.  A synchronous call is one atomic action; an asynchronous  *)
(* call is split at its awaits into a start action and resume actions.     *)
(***************************************************************************)
EXTENDS Naturals, Sequences, FiniteSets, TLC

\* ------------------------------------------------------------------ bounds
MaxScopes == 2      \* scopes begun from the root container
MaxInst   == 3      \* objects constructed after startDI
MaxTasks  == 2      \* suspended asynchronous resolutions
MaxPasses == 2      \* suspended shutdown() calls
MaxDepth  == 6      \* nested synchronous get calls before the stack overflows

\* --------------------------------------------------------------- constants
Undefined == 0
NoQ       == "undefined"            \* the absent qualifier
NoCtor    == "no-ctor"              \* an absent useClass / factory product
Root      == 0                      \* the process-wide container
User      == 0                      \* parent of a call made by the application
Detached  == MaxTasks + 1           \* parent of a promise nobody awaits

\* --------------------------------------------------- identifiers (classes)
\* (id as any).name.  RepoTwin is a second class that is also called Repo
\* (declared in another file); Anon is an anonymous class; Token is a string
\* used as an identifier, which has no name.
Name(id) ==
    CASE id = "RepoTwin"          -> "Repo"
      [] id \in {"Anon", "Token"} -> ""
      [] OTHER           -> id

\* Reflect.getMetadata('design:paramtypes', ctor) ?? [].  Node is a decorated
\* class whose constructor takes a Node (its parent).
Meta(id) ==
    CASE id = "MetaSvc" -> <<"Repo">>
      [] id = "Node"    -> <<"Node">>
      [] OTHER          -> <<>>

\* String(q) of a qualifier: the string 'Symbol(x)' and the symbol
\* Symbol('x') render alike.
QString(q) ==
    CASE q = "sym:x" -> "Symbol(x)"
      [] q = "str:Symbol(x)" -> "Symbol(x)"
      [] OTHER -> q

\* ------------------------------------------------------------- providers
NoFactory == [async |-> FALSE, calls |-> <<>>, makes |-> NoCtor]

\* (ctx) => new makes(ctx.get(calls[1]), ...)
SyncFactory(makes, calls) == [async |-> FALSE, calls |-> calls, makes |-> makes]

\* async (ctx) => new makes(await ctx.getAsync(calls[1]), ...)
AsyncFactory(makes, calls) == [async |-> TRUE, calls |-> calls, makes |-> makes]

NoOpts == [qualifier |-> NoQ, deps |-> <<>>, onClose |-> "none"]

Deps(ds) == [NoOpts EXCEPT !.deps = ds]

OnClose(h) == [NoOpts EXCEPT !.onClose = h]

Provider(kind, id, opts, cls, fac, val) ==
    [kind |-> kind, id |-> id, qualifier |-> opts.qualifier,
     useClass |-> cls, useFactory |-> fac, useValue |-> val,
     deps |-> opts.deps, onClose |-> opts.onClose]

singleOf(ctor, opts)  == Provider("single", ctor, opts, ctor, NoFactory, Undefined)
singleBy(ctor, fac)   == Provider("single", ctor, NoOpts, NoCtor, fac, Undefined)
factoryOf(ctor, opts) == Provider("factory", ctor, opts, ctor, NoFactory, Undefined)
factoryBy(ctor, fac)  == Provider("factory", ctor, NoOpts, NoCtor, fac, Undefined)
scopedOf(ctor, opts)  == Provider("scoped", ctor, opts, ctor, NoFactory, Undefined)
scopedBy(ctor, fac)   == Provider("scoped", ctor, NoOpts, NoCtor, fac, Undefined)

\* modules(...mods): the providers of the modules, concatenated in order
RECURSIVE modules(_)
modules(mods) ==
    IF mods = <<>> THEN <<>> ELSE Head(mods) \o modules(Tail(mods))

\* ------------------------------------------------------------------ state
VARIABLES
    providers,        \* Container.providers: per container, (id, qualifier) -> Provider
    allowOverride,    \* Container.allowOverride, per container
    overrideStrategy, \* Container.overrideStrategy, per container
    singles,          \* Container.singles: per container, key string -> value
    scopedCache,      \* Container.scopedCache: per container, key string -> value
    resolving,        \* Container.resolving: per container, set of key strings
    disposables,      \* Container.disposables: per container, sequence of entries
    scopes,           \* number of containers begun from the root by beginScope()
    heap,             \* the objects constructed so far: [cls, args]
    tasks,            \* suspended asynchronous resolutions (promises not yet settled)
    passes,           \* suspended shutdown() calls
    closed,           \* per object, how often a cleanup was invoked on it
    tracked,          \* number of disposal entries recorded since startDI
    prog,             \* the application program that called startDI
    last              \* outcome of the most recently settled call

vars == <<providers, allowOverride, overrideStrategy, singles, scopedCache,
          resolving, disposables, scopes, heap, tasks, passes, closed, tracked,
          prog, last>>

Conts   == 0..MaxScopes
TaskIds == 1..MaxTasks
PassIds == 1..MaxPasses

EmptyMap == [x \in {} |-> Undefined]

\* Map.has / Map.set
has(map, k)    == k \in DOMAIN map
set(map, k, v) == (k :> v) @@ map

\* Container.parent: the root has none, a scope has the container that began it
HasParent(c) == c # Root
Parent(c)    == Root

\* the absent provider (getProvider's undefined)
NoProvider == Provider("none", "", NoOpts, NoCtor, NoFactory, Undefined)

\* ------------------------------------------------- the machine of a call
\* The part of the state a resolution reads and writes, threaded through the
\* nested calls of one synchronous stretch.
Machine ==
    [singles |-> singles, scopedCache |-> scopedCache, resolving |-> resolving,
     disposables |-> disposables, heap |-> heap, tasks |-> tasks,
     passes |-> passes, closed |-> closed, tracked |-> tracked, full |-> FALSE]

FreeTask ==
    [state |-> "free", kind |-> "", c |-> Root, id |-> "", q |-> NoQ, k |-> "",
     cls |-> NoCtor, calls |-> <<>>, pos |-> 0, args |-> <<>>, npend |-> 0,
     val |-> Undefined, err |-> "", ekey |-> "", cont |-> FALSE, p |-> NoProvider,
     parent |-> Detached, slot |-> 0]

\* outcomes of a call: a value, a thrown error, or a pending promise (task)
Ok(m, v) ==
    [m |-> m, st |-> "ok", val |-> v, err |-> "", key |-> "", task |-> 0, args |-> <<>>]
Throw(m, e, k) ==
    [m |-> m, st |-> "err", val |-> Undefined, err |-> e, key |-> k, task |-> 0, args |-> <<>>]
Pending(m, t) ==
    [m |-> m, st |-> "promise", val |-> Undefined, err |-> "", key |-> "", task |-> t, args |-> <<>>]

\* new cls(...args)
New(m, cls, args) ==
    Ok([m EXCEPT !.heap = Append(@, [cls |-> cls, args |-> args]),
                 !.closed = Append(@, 0)], Len(m.heap) + 1)

\* ------------------------------------------------------ internal helpers
\* Container.keyOf: the string the caches and the in-flight set are indexed by
keyOf(id, q) ==
    (IF Name(id) = "" THEN "[[ctor]]" ELSE Name(id))
        \o (IF q = NoQ THEN "" ELSE "::" \o QString(q))

\* Container.root
RECURSIVE root(_)
root(c) == IF HasParent(c) THEN root(Parent(c)) ELSE c

\* getProvider asking the parent chain before the local registry
getProviderParentFirst(c, id, q) ==
    IF HasParent(c) /\ has(providers[Parent(c)], <<id, q>>)
    THEN providers[Parent(c)][<<id, q>>]
    ELSE IF has(providers[c], <<id, q>>) THEN providers[c][<<id, q>>]
    ELSE NoProvider

\* Container.getProvider: the local registration, else the parent's
RECURSIVE getProvider(_, _, _)
getProvider(c, id, q) ==
    IF has(providers[c], <<id, q>>) THEN providers[c][<<id, q>>]
    ELSE IF HasParent(c) THEN getProvider(Parent(c), id, q)
    ELSE NoProvider

\* cacheAndTrack keeping a scoped instance in the root's scope cache
cacheAndTrackAtRoot(m, c, p, keyStr, instance) ==
    LET m1 == IF p.kind = "single"
              THEN [m EXCEPT !.singles[root(c)] = set(@, keyStr, instance)]
              ELSE m
        m2 == IF p.kind = "scoped"
              THEN [m1 EXCEPT !.scopedCache[root(c)] = set(@, keyStr, instance)]
              ELSE m1
    IN  IF p.kind # "factory"
        THEN [m2 EXCEPT !.disposables[c] =
                 Append(@, [key |-> keyStr, instance |-> instance, close |-> p.onClose,
                            seq |-> m.tracked + 1]),
                        !.tracked = @ + 1]
        ELSE m2

\* cacheAndTrack recording a disposal entry at the front of the list
cacheAndTrackFront(m, c, p, keyStr, instance) ==
    LET m1 == IF p.kind = "single"
              THEN [m EXCEPT !.singles[root(c)] = set(@, keyStr, instance)]
              ELSE m
        m2 == IF p.kind = "scoped"
              THEN [m1 EXCEPT !.scopedCache[c] = set(@, keyStr, instance)]
              ELSE m1
    IN  IF p.kind # "factory"
        THEN [m2 EXCEPT !.disposables[c] =
                 <<[key |-> keyStr, instance |-> instance, close |-> p.onClose,
                    seq |-> m.tracked + 1]>> \o @,
                        !.tracked = @ + 1]
        ELSE m2

\* cacheAndTrack keeping every instance that is not scoped as a singleton
cacheAndTrackAll(m, c, p, keyStr, instance) ==
    LET m1 == IF p.kind # "scoped"
              THEN [m EXCEPT !.singles[root(c)] = set(@, keyStr, instance)]
              ELSE m
        m2 == IF p.kind = "scoped"
              THEN [m1 EXCEPT !.scopedCache[c] = set(@, keyStr, instance)]
              ELSE m1
    IN  IF p.kind # "factory"
        THEN [m2 EXCEPT !.disposables[c] =
                 Append(@, [key |-> keyStr, instance |-> instance, close |-> p.onClose,
                            seq |-> m.tracked + 1]),
                        !.tracked = @ + 1]
        ELSE m2

\* cacheAndTrack recording a disposal entry for an instance of every kind
cacheAndTrackEvery(m, c, p, keyStr, instance) ==
    LET m1 == IF p.kind = "single"
              THEN [m EXCEPT !.singles[root(c)] = set(@, keyStr, instance)]
              ELSE m
        m2 == IF p.kind = "scoped"
              THEN [m1 EXCEPT !.scopedCache[c] = set(@, keyStr, instance)]
              ELSE m1
    IN  [m2 EXCEPT !.disposables[c] =
            Append(@, [key |-> keyStr, instance |-> instance, close |-> p.onClose,
                       seq |-> m.tracked + 1]),
                   !.tracked = @ + 1]

\* cacheAndTrack keeping a singleton in the cache of the container that built it
cacheAndTrackLocal(m, c, p, keyStr, instance) ==
    LET m1 == IF p.kind = "single"
              THEN [m EXCEPT !.singles[c] = set(@, keyStr, instance)]
              ELSE m
        m2 == IF p.kind = "scoped"
              THEN [m1 EXCEPT !.scopedCache[c] = set(@, keyStr, instance)]
              ELSE m1
    IN  IF p.kind # "factory"
        THEN [m2 EXCEPT !.disposables[c] =
                 Append(@, [key |-> keyStr, instance |-> instance, close |-> p.onClose,
                            seq |-> m.tracked + 1]),
                        !.tracked = @ + 1]
        ELSE m2

\* Container.cacheAndTrack
cacheAndTrack(m, c, p, keyStr, instance) ==
    LET m1 == IF p.kind = "single"
              THEN [m EXCEPT !.singles[root(c)] = set(@, keyStr, instance)]
              ELSE m
        m2 == IF p.kind = "scoped"
              THEN [m1 EXCEPT !.scopedCache[c] = set(@, keyStr, instance)]
              ELSE m1
    IN  IF p.kind # "factory"
        THEN [m2 EXCEPT !.disposables[c] =
                 Append(@, [key |-> keyStr, instance |-> instance, close |-> p.onClose,
                            seq |-> m.tracked + 1]),
                        !.tracked = @ + 1]
        ELSE m2

\* the lowest free task slot, 0 when every slot is taken
FreeSlot(m) ==
    IF \E t \in TaskIds : m.tasks[t].state = "free"
    THEN CHOOSE t \in TaskIds :
             /\ m.tasks[t].state = "free"
             /\ \A u \in TaskIds : m.tasks[u].state = "free" => t <= u
    ELSE 0

\* typeof id === 'function': every identifier is a constructor but the token
IsFunction(id) == id # "Token"

\* ---------------------------------------------------- resolution engine
RECURSIVE get(_, _, _, _, _), getAll(_, _, _, _, _), getRest(_, _, _, _, _),
          instantiate(_, _, _, _), construct(_, _, _, _), callFactory(_, _, _, _),
          spawn(_, _, _, _, _), getAsync(_, _, _, _, _, _, _),
          constructAsync(_, _, _, _), getAsyncAll(_, _, _, _, _, _)

\* ids.map(dep => this.get(dep)): the calls in order, up to the first that throws
getAll(m, c, ids, d, acc) ==
    IF ids = <<>> THEN [Ok(m, Undefined) EXCEPT !.args = acc]
    ELSE getRest(get(m, c, Head(ids), NoQ, d), c, Tail(ids), d, acc)

\* the map after its call r: the rest of the calls, unless r threw
getRest(r, c, ids, d, acc) ==
    IF r.st = "err" THEN r ELSE getAll(r.m, c, ids, d, Append(acc, r.val))

\* new cls(...args), with the outcome r of resolving the arguments
build(r, cls) ==
    IF r.st = "err" THEN r ELSE New(r.m, cls, r.args)

\* Container.get from the outcome r of instantiate on (lines 254-261)
got(r, c, p, k) ==
    IF r.st = "err" THEN r
    ELSE IF r.st = "promise" THEN Throw(r.m, "SyncAgainstAsync", k)
    ELSE Ok([cacheAndTrack(r.m, c, p, k, r.val) EXCEPT !.resolving[c] = @ \ {k}], r.val)

\* get without the check of the in-flight set
getUnchecked(m, c, id, q, d) ==
    LET k == keyOf(id, q)
        p == getProvider(c, id, q)
    IN  IF d > MaxDepth THEN Throw(m, "RangeError", k)
        ELSE IF has(m.singles[c], k) THEN Ok(m, m.singles[c][k])
        ELSE IF has(m.scopedCache[c], k) THEN Ok(m, m.scopedCache[c][k])
        ELSE IF p = NoProvider
        THEN IF IsFunction(id) THEN construct(m, c, id, d)
             ELSE Throw(m, "NoProvider", k)
        ELSE got(instantiate([m EXCEPT !.resolving[c] = @ \cup {k}], c, p, d), c, p, k)

\* Container.get, at nesting depth d of the call stack (a stack that grows
\* beyond MaxDepth overflows: RangeError)
get(m, c, id, q, d) ==
    LET k == keyOf(id, q)
        p == getProvider(c, id, q)
    IN  IF d > MaxDepth THEN Throw(m, "RangeError", k)
        ELSE IF has(m.singles[c], k) THEN Ok(m, m.singles[c][k])
        ELSE IF has(m.scopedCache[c], k) THEN Ok(m, m.scopedCache[c][k])
        ELSE IF p = NoProvider
        THEN IF IsFunction(id) THEN construct(m, c, id, d)
             ELSE Throw(m, "NoProvider", k)
        ELSE IF k \in m.resolving[c] THEN Throw(m, "Circular", k)
        ELSE got(instantiate([m EXCEPT !.resolving[c] = @ \cup {k}], c, p, d), c, p, k)

\* Container.instantiate
instantiate(m, c, p, d) ==
    IF p.useValue # Undefined THEN Ok(m, p.useValue)
    ELSE IF p.useFactory # NoFactory THEN callFactory(m, c, p.useFactory, d)
    ELSE IF p.useClass # NoCtor
    THEN IF Len(p.deps) > 0
         THEN build(getAll(m, c, p.deps, d + 1, <<>>), p.useClass)
         ELSE construct(m, c, p.useClass, d)
    ELSE Throw(m, "InvalidProvider", keyOf(p.id, p.qualifier))

\* Container.construct
construct(m, c, ctor, d) ==
    IF Len(Meta(ctor)) > 0
    THEN build(getAll(m, c, Meta(ctor), d + 1, <<>>), ctor)
    ELSE New(m, ctor, <<>>)

\* What the awaiting frame t keeps of the promise r of its slot-th call:
\* the value, the rejection, or the child it now waits for.
absorb(r, t, slot) ==
    CASE r.st = "ok" ->
           [r.m EXCEPT !.tasks[t].args = [@ EXCEPT ![slot] = r.val]]
      [] r.st = "err" ->
           [r.m EXCEPT !.tasks[t].err  = IF @ = "" THEN r.err ELSE @,
                       !.tasks[t].ekey = IF r.m.tasks[t].err = "" THEN r.key ELSE @]
      [] OTHER ->
           [r.m EXCEPT !.tasks[t].npend = @ + 1]

\* A frame runs again once nothing it awaits is pending, or one awaited
\* promise has rejected.
settle(m, t) ==
    [m EXCEPT !.tasks[t].state =
        IF m.tasks[t].npend = 0 \/ m.tasks[t].err # "" THEN "run" ELSE "wait"]

\* the frame of a factory that returns at once the promise of the object r
made(r, t, frame) ==
    Pending([r.m EXCEPT !.tasks[t] = [frame EXCEPT !.val = r.val]], t)

\* p.useFactory({get, getAsync}): a synchronous factory runs to its end; an
\* asynchronous one runs to its first await and returns a promise (a task).
callFactory(m, c, f, d) ==
    IF ~f.async
    THEN build(getAll(m, c, f.calls, d + 1, <<>>), f.makes)
    ELSE spawn(m, c, f, d, FreeSlot(m))

\* the asynchronous factory f in frame t, up to its first await
spawn(m, c, f, d, t) ==
    LET frame == [FreeTask EXCEPT !.state = "run", !.kind = "factory", !.c = c,
                                  !.cls = f.makes, !.calls = f.calls,
                                  !.args = [i \in 1..Len(f.calls) |-> Undefined]]
    IN  IF t = 0 THEN Throw([m EXCEPT !.full = TRUE], "full", "")
        ELSE IF f.calls = <<>> THEN made(New(m, f.makes, <<>>), t, frame)
        ELSE Pending(settle([absorb(getAsync([m EXCEPT !.tasks[t] = frame], c,
                                             f.calls[1], NoQ, d + 1, t, 1), t, 1)
                                EXCEPT !.tasks[t].pos = 1], t), t)

\* the promise r of constructAsync, returned by getAsync to frame `parent`
adopt(r, id, q, k, parent, slot) ==
    IF r.st # "promise" THEN r
    ELSE Pending([r.m EXCEPT !.tasks[r.task] =
                     [@ EXCEPT !.id = id, !.q = q, !.k = k,
                               !.parent = parent, !.slot = slot]], r.task)

\* Container.getAsync from the outcome r of instantiate on (lines 280-284): a
\* promise suspends the call, which will run cacheAndTrack when it is resumed
gotAsync(r, c, p, id, q, k, parent, slot) ==
    IF r.st = "err" THEN r
    ELSE IF r.st = "promise"
    THEN Pending([r.m EXCEPT !.tasks[r.task] =
                     [@ EXCEPT !.cont = TRUE, !.p = p, !.id = id, !.q = q, !.k = k,
                               !.parent = parent, !.slot = slot]], r.task)
    ELSE Ok([cacheAndTrack(r.m, c, p, k, r.val) EXCEPT !.resolving[c] = @ \ {k}], r.val)

\* Container.getAsync up to its first await, called by frame `parent` for its
\* slot-th argument (by the application when parent = User)
getAsync(m, c, id, q, d, parent, slot) ==
    LET k == keyOf(id, q)
        p == getProvider(c, id, q)
    IN  IF d > MaxDepth THEN Throw(m, "RangeError", k)
        ELSE IF has(m.singles[c], k) THEN Ok(m, m.singles[c][k])
        ELSE IF has(m.scopedCache[c], k) THEN Ok(m, m.scopedCache[c][k])
        ELSE IF p = NoProvider
        THEN IF IsFunction(id)
             THEN adopt(constructAsync(m, c, id, d), id, q, k, parent, slot)
             ELSE Throw(m, "NoProvider", k)
        ELSE IF k \in m.resolving[c] THEN Throw(m, "Circular", k)
        ELSE gotAsync(instantiate([m EXCEPT !.resolving[c] = @ \cup {k}], c, p, d),
                      c, p, id, q, k, parent, slot)

\* paramTypes.map(dep => this.getAsync(dep)) for Promise.all: every call is
\* started, in order, whatever the earlier ones returned
getAsyncAll(m, c, ids, i, d, t) ==
    IF i > Len(ids) THEN settle(m, t)
    ELSE getAsyncAll(absorb(getAsync(m, c, ids[i], NoQ, d, t, i), t, i), c, ids, i + 1, d, t)

\* Container.constructAsync up to its await of Promise.all, in frame t
constructIn(m, c, ctor, d, t) ==
    IF t = 0 THEN Throw([m EXCEPT !.full = TRUE], "full", "")
    ELSE Pending(getAsyncAll(
                    [m EXCEPT !.tasks[t] =
                        [FreeTask EXCEPT !.state = "run", !.kind = "construct", !.c = c,
                                         !.cls = ctor, !.calls = Meta(ctor),
                                         !.pos = Len(Meta(ctor)),
                                         !.args = [i \in 1..Len(Meta(ctor)) |-> Undefined]]],
                    c, Meta(ctor), 1, d + 1, t), t)

\* Container.constructAsync
constructAsync(m, c, ctor, d) ==
    IF Len(Meta(ctor)) = 0 THEN New(m, ctor, <<>>)
    ELSE constructIn(m, c, ctor, d, FreeSlot(m))

\* ------------------------------------------------ resuming a resolution
NoOut == [st |-> "none", val |-> Undefined, err |-> "", key |-> ""]

\* frames awaiting a promise of frame t await nothing once t is gone
release(m, t) ==
    [m EXCEPT !.tasks =
        [u \in TaskIds |->
            IF u = t THEN FreeTask
            ELSE IF m.tasks[u].parent = t THEN [m.tasks[u] EXCEPT !.parent = Detached]
            ELSE m.tasks[u]]]

\* The promise of frame tk settles with r: the awaiting frame takes it, or
\* the application sees it.
settled(r, tk) ==
    IF tk.parent \in TaskIds
    THEN [m |-> settle([absorb(r, tk.parent, tk.slot)
                           EXCEPT !.tasks[tk.parent].npend = @ - 1], tk.parent),
          out |-> NoOut]
    ELSE IF tk.parent = User
    THEN [m |-> r.m, out |-> [st |-> r.st, val |-> r.val, err |-> r.err, key |-> r.key]]
    ELSE [m |-> r.m, out |-> NoOut]

\* the end of frame tk in slot t with the object r: getAsync's cacheAndTrack
\* when the frame is a getAsync call, then the promise settles
fulfil(r, t, tk) ==
    settled(Ok(release(IF tk.cont
                       THEN [cacheAndTrack(r.m, tk.c, tk.p, tk.k, r.val)
                                EXCEPT !.resolving[tk.c] = @ \ {tk.k}]
                       ELSE r.m, t), r.val), tk)

\* The continuation of frame tk in slot t after its await (getAsync lines
\* 280-284 with the factory's own continuation, constructAsync lines 395-396).
resumeFrame(m, t, tk) ==
    IF tk.err # ""
    THEN settled(Throw(release(m, t), tk.err, tk.ekey), tk)
    ELSE IF tk.kind = "factory" /\ tk.pos < Len(tk.calls)
    THEN [m |-> settle([absorb(getAsync(m, tk.c, tk.calls[tk.pos + 1], NoQ, 1, t,
                                        tk.pos + 1), t, tk.pos + 1)
                           EXCEPT !.tasks[t].pos = tk.pos + 1], t),
          out |-> NoOut]
    ELSE IF tk.val # Undefined THEN fulfil(Ok(m, tk.val), t, tk)
    ELSE fulfil(New(m, tk.cls, tk.args), t, tk)

resume(m, t) == resumeFrame(m, t, m.tasks[t])

\* --------------------------------------------------------------- disposal
\* The cleanup methods a class declares, and how a cleanup of it behaves.
HasMethod(cls, fn) ==
    CASE cls = "Ctx"   -> fn = "dispose"
      [] cls = "Db"    -> fn = "close"
      [] cls = "Multi" -> fn \in {"close", "destroy"}
      [] cls = "Flaky" -> fn = "destroy"
      [] OTHER         -> FALSE

\* a class whose cleanup method throws
MethodFails(cls) == cls = "Flaky"

\* tryAutoDispose trying destroy first, then close, then dispose
tryAutoDisposeReversed(cls) ==
    IF HasMethod(cls, "destroy") THEN "destroy"
    ELSE IF HasMethod(cls, "close") THEN "close"
    ELSE IF HasMethod(cls, "dispose") THEN "dispose"
    ELSE "none"

\* tryAutoDispose: the first of dispose, close, destroy the object has
tryAutoDispose(cls) ==
    IF HasMethod(cls, "dispose") THEN "dispose"
    ELSE IF HasMethod(cls, "close") THEN "close"
    ELSE IF HasMethod(cls, "destroy") THEN "destroy"
    ELSE "none"

\* an onClose hook, or a cleanup method, that throws or returns a rejecting promise
Fails(how) == how \in {"throw", "reject"}

\* A shutdown() call: the container, the loop index i, the entry it awaits
\* (seq, threw), and what it has done so far: ev logs the cleanups it started
\* and saw end, n0 is the length of the list and top the number of entries ever
\* recorded when it was called, solo tells that no other shutdown() of the
\* container ran while it did.
FreePass == [state |-> "free", c |-> Root, i |-> 0, ev |-> <<>>, threw |-> FALSE,
             seq |-> 0, n0 |-> 0, top |-> 0, solo |-> TRUE]

\* the end of a shutdown() that clears the list and the caches of every container
finishAll(m, c) ==
    [m EXCEPT !.disposables = [c2 \in Conts |-> <<>>],
              !.singles     = [c2 \in Conts |-> EmptyMap],
              !.scopedCache = [c2 \in Conts |-> EmptyMap]]

\* the end of a shutdown() that clears the disposal list and leaves the caches
finishList(m, c) ==
    [m EXCEPT !.disposables[c] = <<>>]

\* the end of shutdown(): lines 308-310
finish(m, c) ==
    [m EXCEPT !.disposables[c] = <<>>,
              !.singles[c]     = EmptyMap,
              !.scopedCache[c] = EmptyMap]

\* The log of a shutdown() call: the cleanup of entry d begins with the call of
\* fn (onClose, a method of the instance, or none), it ends (threw: by throwing
\* or rejecting), or the loop finds no entry at its index.
Began(d, fn) ==
    [e |-> "start", seq |-> d.seq, threw |-> FALSE, fn |-> fn, obj |-> d.instance,
     hook |-> d.close]
Ended(seq, threw) ==
    [e |-> "end", seq |-> seq, threw |-> threw, fn |-> "", obj |-> Undefined, hook |-> ""]
Skipped ==
    [e |-> "skip", seq |-> 0, threw |-> TRUE, fn |-> "", obj |-> Undefined, hook |-> ""]

\* The for loop of shutdown() from 1-based index i, up to its next await or
\* to the end of the call.
RECURSIVE loop(_, _, _, _)

\* the loop without its try/catch: a cleanup that fails ends the call
loopAbort(m, c, i, ev) ==
    IF ev # <<>> /\ ev[Len(ev)].threw
    THEN [m |-> m, i |-> 0, ev |-> ev, await |-> FALSE, threw |-> FALSE, seq |-> 0,
          st |-> "err"]
    ELSE IF i < 1 THEN [m |-> finish(m, c), i |-> 0, ev |-> ev, await |-> FALSE,
                        threw |-> FALSE, seq |-> 0, st |-> "ok"]
    ELSE IF i > Len(m.disposables[c])
    THEN loop(m, c, i - 1, Append(ev, Skipped))
    ELSE LET d  == m.disposables[c][i]
             m1 == [m EXCEPT !.closed[d.instance] = @ + 1]
             cls == m.heap[d.instance].cls
             fn == tryAutoDispose(cls)
             begun == Append(ev, Began(d, IF d.close # "none" THEN "onClose" ELSE fn))
         IN  IF d.close \in {"sync", "throw"}
             THEN loop(m1, c, i - 1,
                       Append(begun, Ended(d.seq, Fails(d.close))))
             ELSE IF d.close # "none"
             THEN [m |-> m1, i |-> i, ev |-> begun, await |-> TRUE,
                   threw |-> Fails(d.close), seq |-> d.seq, st |-> "ok"]
             ELSE [m |-> IF fn = "none" THEN m ELSE m1, i |-> i, ev |-> begun,
                   await |-> TRUE, threw |-> fn # "none" /\ MethodFails(cls), seq |-> d.seq,
                   st |-> "ok"]

loop(m, c, i, ev) ==
    IF i < 1 THEN [m |-> finish(m, c), i |-> 0, ev |-> ev, await |-> FALSE,
                   threw |-> FALSE, seq |-> 0, st |-> "ok"]
    ELSE IF i > Len(m.disposables[c])
    THEN \* d is undefined: d.close throws a TypeError, which the catch swallows
         loop(m, c, i - 1, Append(ev, Skipped))
    ELSE LET d  == m.disposables[c][i]
             m1 == [m EXCEPT !.closed[d.instance] = @ + 1]
             cls == m.heap[d.instance].cls
             fn == tryAutoDispose(cls)
             begun == Append(ev, Began(d, IF d.close # "none" THEN "onClose" ELSE fn))
         IN  IF d.close \in {"sync", "throw"}
             THEN loop(m1, c, i - 1,
                       Append(begun, Ended(d.seq, Fails(d.close))))
             ELSE IF d.close # "none"
             THEN [m |-> m1, i |-> i, ev |-> begun, await |-> TRUE,
                   threw |-> Fails(d.close), seq |-> d.seq, st |-> "ok"]
             ELSE [m |-> IF fn = "none" THEN m ELSE m1, i |-> i, ev |-> begun,
                   await |-> TRUE, threw |-> fn # "none" /\ MethodFails(cls), seq |-> d.seq,
                   st |-> "ok"]

\* the lowest free pass slot, 0 when every slot is taken
FreePassSlot ==
    IF \E s \in PassIds : passes[s].state = "free"
    THEN CHOOSE s \in PassIds :
             /\ passes[s].state = "free"
             /\ \A u \in PassIds : passes[u].state = "free" => s <= u
    ELSE 0

\* ---------------------------------------------------------------- registry
\* Container.configure
configure(opts) ==
    [allowOverride    |-> opts.allowOverride,
     overrideStrategy |-> IF opts.overrideStrategy # "undefined" THEN opts.overrideStrategy
                          ELSE IF opts.allowOverride THEN "lastWins" ELSE "error"]

\* setProvider refusing a duplicate only when both settings refuse it
setProviderLax(reg, allow, strategy, p) ==
    LET key == <<p.id, p.qualifier>>
    IN  IF has(reg, key) /\ (~allow /\ strategy = "error")
        THEN [reg |-> reg, st |-> "err", err |-> "BeanOverrideError",
              key |-> keyOf(p.id, p.qualifier)]
        ELSE [reg |-> set(reg, key, p), st |-> "ok", err |-> "", key |-> ""]

\* Container.setProvider on registry reg: the registry after the call and
\* whether it threw BeanOverrideError
setProvider(reg, allow, strategy, p) ==
    LET key == <<p.id, p.qualifier>>
    IN  IF has(reg, key) /\ (~allow \/ strategy = "error")
        THEN [reg |-> reg, st |-> "err", err |-> "BeanOverrideError",
              key |-> keyOf(p.id, p.qualifier)]
        ELSE [reg |-> set(reg, key, p), st |-> "ok", err |-> "", key |-> ""]

\* Container.load: setProvider for each provider in order, up to the first throw
RECURSIVE load(_, _, _, _)
load(reg, allow, strategy, provs) ==
    IF provs = <<>> THEN [reg |-> reg, st |-> "ok", err |-> "", key |-> ""]
    ELSE LET r == setProvider(reg, allow, strategy, Head(provs))
         IN  IF r.st = "err" THEN r ELSE load(r.reg, allow, strategy, Tail(provs))

\* ------------------------------------------------------------- programs
\* The applications that drive the container: the modules each passes to
\* startDI, the options it may pass, the (identifier, qualifier) pairs it
\* requests, the literal objects it owns and the overrides it installs.
Default  == [allowOverride |-> FALSE, overrideStrategy |-> "undefined"]
LastWins == [allowOverride |-> TRUE,  overrideStrategy |-> "lastWins"]

Unqualified(ids) == {<<id, NoQ>> : id \in ids}

AllOpts ==
    {[allowOverride |-> a, overrideStrategy |-> st] :
        a \in BOOLEAN, st \in {"undefined", "error", "lastWins"}}

\* a program that passes no module and requests nothing
Idle ==
    [mods |-> <<>>, opts |-> {}, reqs |-> {}, lits |-> 0, overrides |-> {},
     scopes |-> 0, passes |-> 1]

Program(name) ==
    CASE name = "kinds" ->
           \* tests/koinish.no-reflect.spec.ts, 'singleOf returns the same instance;
           \* factoryOf returns new instances'
           [Idle EXCEPT
              !.mods = << <<singleOf("Repo", NoOpts),
                            factoryOf("Presenter", Deps(<<"Repo">>))>> >>,
              !.opts = {Default},
              !.reqs = Unqualified({"Repo", "Presenter"}),
              !.scopes = 1]
      [] name = "scoped" ->
           \* 'scopedOf: same instance within scope, different across scopes;
           \* end() disposes'
           [Idle EXCEPT
              !.mods = << <<scopedOf("Ctx", NoOpts)>> >>,
              !.opts = {Default},
              !.reqs = Unqualified({"Ctx"}),
              !.scopes = MaxScopes]
      [] name = "literal" ->
           \* {kind: 'scoped', id: Cfg, useValue: cfg}: a scoped literal value
           [Idle EXCEPT
              !.mods = << <<Provider("scoped", "Cfg", NoOpts, NoCtor, NoFactory, 1)>> >>,
              !.opts = {Default},
              !.reqs = Unqualified({"Cfg"}),
              !.lits = 1,
              !.scopes = MaxScopes]
      [] name = "twins" ->
           \* two classes called Repo, one a singleton and one a factory
           [Idle EXCEPT
              !.mods = << <<singleOf("RepoTwin", NoOpts), factoryOf("Repo", NoOpts)>> >>,
              !.opts = {Default},
              !.reqs = Unqualified({"Repo", "RepoTwin"})]
      [] name = "cycle" ->
           \* 'detects a circular dependency (A -> B, B -> A)'
           [Idle EXCEPT
              !.mods = << <<singleOf("A", Deps(<<"B">>)), singleOf("B", Deps(<<"A">>))>> >>,
              !.opts = {Default},
              !.reqs = Unqualified({"A", "B"}),
              !.scopes = 1]
      [] name = "detour" ->
           \* a cycle K -> L -> K whose first key depends on an asynchronous D first
           [Idle EXCEPT
              !.mods = << <<singleBy("D", AsyncFactory("D", <<>>)),
                            singleOf("K", Deps(<<"D", "L">>)),
                            singleOf("L", Deps(<<"K">>))>> >>,
              !.opts = {Default},
              !.reqs = Unqualified({"K", "L"})]
      [] name = "async" ->
           \* 'async factory + injectAsync works'
           [Idle EXCEPT
              !.mods = << <<singleBy("Conn", AsyncFactory("Conn", <<>>)),
                            singleBy("Db", AsyncFactory("Db", <<"Conn">>))>> >>,
              !.opts = {Default},
              !.reqs = Unqualified({"Conn", "Db"})]
      [] name = "swap" ->
           \* 'override() at runtime replaces a single (with allowOverride)', the
           \* single being built asynchronously
           [Idle EXCEPT
              !.mods = << <<singleBy("Conn", AsyncFactory("Conn", <<>>))>> >>,
              !.opts = {LastWins},
              !.reqs = Unqualified({"Conn"}),
              !.lits = 1,
              !.overrides = {<<"Conn", 1, NoQ>>}]
      [] name = "policy" ->
           \* 'override policy: throws by default and allows lastWins when enabled'
           [Idle EXCEPT
              !.mods = << <<singleBy("S", SyncFactory("Impl1", <<>>))>>,
                          <<singleBy("S", SyncFactory("Impl2", <<>>))>> >>,
              !.opts = AllOpts,
              !.reqs = Unqualified({"S"}),
              !.lits = 1,
              !.overrides = {<<"S", 1, NoQ>>}]
      [] name = "cleanup" ->
           \* 'onClose on singles is called at shutdownDI; auto close/dispose/destroy
           \* also works', with a hook that throws and one whose promise rejects
           [Idle EXCEPT
              !.mods = << <<singleOf("Db", NoOpts),
                            singleOf("Cache", OnClose("throw")),
                            singleOf("Pool", OnClose("reject"))>> >>,
              !.opts = {Default},
              !.reqs = Unqualified({"Db", "Cache", "Pool"}),
              !.passes = MaxPasses]
      [] name = "fallback" ->
           \* 'fallback: unregistered class with no deps is constructed directly',
           \* with an unregistered class whose constructor parameter is the
           \* registered Repo, an unregistered second class called Repo, and a
           \* string used as an identifier
           [Idle EXCEPT
              !.mods = << <<singleOf("Repo", NoOpts)>> >>,
              !.opts = {Default},
              !.reqs = Unqualified({"Repo", "RepoTwin", "Plain", "MetaSvc", "Token"})]
      [] name = "shapes" ->
           \* object-literal providers: one that sets no construction mode, one
           \* that sets a class and a value, one that sets a class and a factory
           [Idle EXCEPT
              !.mods = << <<Provider("single", "Bare", NoOpts, NoCtor, NoFactory, Undefined),
                            Provider("single", "Both", NoOpts, "Both", NoFactory, 1),
                            Provider("factory", "Mixed", NoOpts, "Mixed",
                                     SyncFactory("Impl1", <<>>), Undefined)>> >>,
              !.opts = {Default},
              !.reqs = Unqualified({"Bare", "Both", "Mixed"}),
              !.lits = 1]
      [] name = "selfref" ->
           \* startDI(module()) and an unregistered class whose reflection
           \* metadata names the class itself
           [Idle EXCEPT
              !.mods = << <<>> >>,
              !.opts = {Default},
              !.reqs = Unqualified({"Node", "Plain"})]
      [] name = "pooled" ->
           \* a connection pool the application built itself, registered as a
           \* literal with an onClose hook
           [Idle EXCEPT
              !.mods = << <<Provider("single", "Pool", OnClose("sync"), NoCtor, NoFactory, 1)>> >>,
              !.opts = {Default},
              !.reqs = Unqualified({"Pool"}),
              !.lits = 1,
              !.scopes = 1]
      [] name = "methods" ->
           \* a class with close and destroy, a class with close registered with
           \* an onClose hook, and a class whose destroy throws
           [Idle EXCEPT
              !.mods = << <<singleOf("Multi", NoOpts),
                            singleOf("Db", OnClose("sync")),
                            singleOf("Flaky", NoOpts)>> >>,
              !.opts = {Default},
              !.reqs = Unqualified({"Multi", "Db", "Flaky"})]
      [] name = "namesake" ->
           \* two classes called Repo, the one wrapping the other
           [Idle EXCEPT
              !.mods = << <<singleOf("Repo", Deps(<<"RepoTwin">>)),
                            singleOf("RepoTwin", NoOpts)>> >>,
              !.opts = {Default},
              !.reqs = Unqualified({"Repo", "RepoTwin"})]
      [] name = "qualified" ->
           \* S bound under the symbol Symbol('x') and under the string 'Symbol(x)'
           [Idle EXCEPT
              !.mods = << <<Provider("single", "S", [NoOpts EXCEPT !.qualifier = "sym:x"],
                                     NoCtor, SyncFactory("Impl1", <<>>), Undefined),
                            Provider("single", "S", [NoOpts EXCEPT !.qualifier = "str:Symbol(x)"],
                                     NoCtor, SyncFactory("Impl2", <<>>), Undefined)>> >>,
              !.opts = {Default},
              !.reqs = {<<"S", "sym:x">>, <<"S", "str:Symbol(x)">>, <<"S", NoQ>>},
              !.scopes = 1]
      [] name = "lenient" ->
           \* startDI with allowOverride set, and a scope begun under that policy
           [Idle EXCEPT
              !.mods = << <<singleOf("Repo", NoOpts)>> >>,
              !.opts = {LastWins, [allowOverride |-> TRUE, overrideStrategy |-> "error"]},
              !.reqs = Unqualified({"Repo"}),
              !.scopes = 1]
      [] name = "shared" ->
           \* a singleton with a close method, first requested through a scope
           [Idle EXCEPT
              !.mods = << <<singleOf("Db", NoOpts)>> >>,
              !.opts = {Default},
              !.reqs = Unqualified({"Db"}),
              !.scopes = 1]
      [] name = "wired" ->
           \* a Repo that is opened asynchronously, a class that takes it by an
           \* explicit dependency list and one that takes it by reflection metadata
           [Idle EXCEPT
              !.mods = << <<singleBy("Repo", AsyncFactory("Repo", <<>>)),
                            singleOf("Presenter", Deps(<<"Repo">>)),
                            singleOf("MetaSvc", NoOpts)>> >>,
              !.opts = {Default},
              !.reqs = Unqualified({"Presenter", "MetaSvc"})]
      [] OTHER -> Idle

Programs ==
    {"kinds", "scoped", "literal", "twins", "cycle", "detour", "async", "swap", "policy",
     "cleanup", "fallback", "namesake", "qualified",
     "shapes", "selfref", "pooled", "methods", "lenient", "shared",
     "wired"}

\* ---------------------------------------------------------------- actions
Outcome(op, c, id, q, r) ==
    [op |-> op, c |-> c, id |-> id, q |-> q, st |-> r.st, val |-> r.val,
     err |-> r.err, key |-> r.key, ev |-> <<>>, n0 |-> 0, top |-> 0, solo |-> TRUE]

NoCall == Outcome("none", Root, "", NoQ, NoOut)

Literal == [cls |-> "Literal", args |-> <<>>]

\* the machine fits the bounds of the model
Fits(m) ==
    /\ ~m.full
    /\ Len(m.heap) <= Program(prog).lits + MaxInst
    /\ m.tracked <= MaxInst

Commit(m) ==
    /\ singles' = m.singles
    /\ scopedCache' = m.scopedCache
    /\ resolving' = m.resolving
    /\ disposables' = m.disposables
    /\ heap' = m.heap
    /\ tasks' = m.tasks
    /\ passes' = m.passes
    /\ closed' = m.closed
    /\ tracked' = m.tracked

Init ==
    /\ providers = [c \in Conts |-> EmptyMap]
    /\ allowOverride = [c \in Conts |-> FALSE]
    /\ overrideStrategy = [c \in Conts |-> "error"]
    /\ singles = [c \in Conts |-> EmptyMap]
    /\ scopedCache = [c \in Conts |-> EmptyMap]
    /\ resolving = [c \in Conts |-> {}]
    /\ disposables = [c \in Conts |-> <<>>]
    /\ scopes = 0
    /\ heap = <<>>
    /\ tasks = [t \in TaskIds |-> FreeTask]
    /\ passes = [s \in PassIds |-> FreePass]
    /\ closed = <<>>
    /\ tracked = 0
    /\ prog = "none"
    /\ last = NoCall

\* startDI(...mods, opts): a new process-wide container, configured, then
\* loaded.  The container it replaces is out of reach of the application, with
\* its scopes and its suspended calls, so the model starts afresh; programs
\* call it first, after a startDI and after resetDI.
StartDI(name, o) ==
    LET cfg == configure(o)
        r   == load(EmptyMap, cfg.allowOverride, cfg.overrideStrategy,
                    modules(Program(name).mods))
    IN  /\ last.op \in {"none", "startDI", "reset"}
        /\ providers' = [c \in Conts |-> IF c = Root THEN r.reg ELSE EmptyMap]
        /\ allowOverride' = [c \in Conts |-> IF c = Root THEN cfg.allowOverride ELSE FALSE]
        /\ overrideStrategy' =
               [c \in Conts |-> IF c = Root THEN cfg.overrideStrategy ELSE "error"]
        /\ singles' = [c \in Conts |-> EmptyMap]
        /\ scopedCache' = [c \in Conts |-> EmptyMap]
        /\ resolving' = [c \in Conts |-> {}]
        /\ disposables' = [c \in Conts |-> <<>>]
        /\ scopes' = 0
        /\ heap' = [i \in 1..Program(name).lits |-> Literal]
        /\ closed' = [i \in 1..Program(name).lits |-> 0]
        /\ tasks' = [t \in TaskIds |-> FreeTask]
        /\ passes' = [s \in PassIds |-> FreePass]
        /\ tracked' = 0
        /\ prog' = name
        /\ last' = Outcome("startDI", Root, "", NoQ,
                           [st |-> r.st, val |-> Undefined, err |-> r.err, key |-> r.key])

\* beginScope(): a child of the process-wide container with its override policy
BeginScope ==
    LET cfg == configure([allowOverride    |-> allowOverride[Root],
                          overrideStrategy |-> overrideStrategy[Root]])
    IN
    /\ scopes < MaxScopes
    /\ scopes < Program(prog).scopes
    /\ scopes' = scopes + 1
    /\ allowOverride' = [allowOverride EXCEPT ![scopes + 1] = cfg.allowOverride]
    /\ overrideStrategy' = [overrideStrategy EXCEPT ![scopes + 1] = cfg.overrideStrategy]
    /\ last' = Outcome("beginScope", scopes + 1, "", NoQ, Ok(Machine, Undefined))
    /\ UNCHANGED <<providers, singles, scopedCache, resolving, disposables, heap, tasks,
                   passes, closed, tracked, prog>>

\* a resolution has run to its end or to an await with outcome r
Resolved(c, id, q, r, op) ==
    /\ Fits(r.m)
    /\ Commit(r.m)
    /\ last' = IF r.st \in {"promise", "none"} THEN last ELSE Outcome(op, c, id, q, r)
    /\ UNCHANGED <<providers, allowOverride, overrideStrategy, scopes, prog>>

\* inject(id, q) on the root, scope.get(id, q) on a scope
Get(c, id, q) == Resolved(c, id, q, get(Machine, c, id, q, 1), "get")

\* injectAsync(id, q) on the root, scope.getAsync(id, q) on a scope: the call
\* up to its first await
GetAsync(c, id, q) ==
    Resolved(c, id, q, getAsync(Machine, c, id, q, 1, User, 0), "getAsync")

\* the stretch r of a resumed frame as the outcome of its getAsync call
Delivered(r) ==
    [m |-> r.m, st |-> r.out.st, val |-> r.out.val, err |-> r.out.err, key |-> r.out.key]

\* a suspended resolution runs on after its await
Resume(t) ==
    /\ tasks[t].state = "run"
    /\ Resolved(tasks[t].c, tasks[t].id, tasks[t].q, Delivered(resume(Machine, t)),
                "getAsync")

\* Container.override on the process-wide container
Override(id, value, q) ==
    LET p == Provider("single", id, [NoOpts EXCEPT !.qualifier = q], NoCtor, NoFactory, value)
        r == setProvider(providers[Root], allowOverride[Root], overrideStrategy[Root], p)
        k == keyOf(id, q)
    IN  /\ providers' = [providers EXCEPT ![Root] = r.reg]
        /\ singles' = IF r.st = "err" THEN singles
                      ELSE [singles EXCEPT ![root(Root)] = set(@, k, value)]
        /\ last' = Outcome("override", Root, id, q,
                           [st |-> r.st, val |-> value, err |-> r.err, key |-> r.key])
        /\ UNCHANGED <<allowOverride, overrideStrategy, scopedCache, resolving, disposables,
                       scopes, heap, tasks, passes, closed, tracked, prog>>

\* what a shutdown() call leaves after the stretch r of its loop: a suspended
\* pass in slot s, or the settled call
Passed(s, ps, r) ==
    /\ singles' = r.m.singles
    /\ scopedCache' = r.m.scopedCache
    /\ disposables' = r.m.disposables
    /\ closed' = r.m.closed
    /\ passes' = [u \in PassIds |->
                      IF u # s
                      THEN IF passes[u].state # "free" /\ passes[u].c = ps.c
                           THEN [passes[u] EXCEPT !.solo = @ /\ ps.state = "await"]
                           ELSE passes[u]
                      ELSE IF r.await
                      THEN [ps EXCEPT !.state = "await", !.i = r.i, !.ev = r.ev,
                                      !.threw = r.threw, !.seq = r.seq]
                      ELSE FreePass]
    /\ last' = IF r.await THEN last
               ELSE [Outcome("shutdown", ps.c, "", NoQ,
                             [st |-> r.st, val |-> Undefined, err |-> "", key |-> ""])
                        EXCEPT !.ev = r.ev, !.n0 = ps.n0, !.top = ps.top, !.solo = ps.solo]
    /\ UNCHANGED <<providers, allowOverride, overrideStrategy, resolving, scopes, heap,
                   tasks, tracked, prog>>

\* shutdownDI() on the root, scope.end() on a scope: the call up to its first await
Shutdown(c) ==
    LET s == FreePassSlot
        others == {u \in PassIds : passes[u].state # "free" /\ passes[u].c = c}
    IN  /\ s # 0
        /\ Cardinality({u \in PassIds : passes[u].state # "free"}) < Program(prog).passes
        /\ Passed(s, [FreePass EXCEPT !.state = "start", !.c = c,
                                      !.n0 = Len(disposables[c]), !.top = tracked,
                                      !.solo = others = {}],
                  loop(Machine, c, Len(disposables[c]), <<>>))

\* a suspended shutdown() runs on after the cleanup it awaited has settled
ShutdownResume(s) ==
    LET ps == passes[s]
    IN  /\ ps.state = "await"
        /\ Passed(s, ps,
                  loop(Machine, ps.c, ps.i - 1, Append(ps.ev, Ended(ps.seq, ps.threw))))

\* resetDI(): Container.reset on the process-wide container
ResetDI ==
    /\ singles' = [singles EXCEPT ![Root] = EmptyMap]
    /\ providers' = [providers EXCEPT ![Root] = EmptyMap]
    /\ resolving' = [resolving EXCEPT ![Root] = {}]
    /\ scopedCache' = [scopedCache EXCEPT ![Root] = EmptyMap]
    /\ disposables' = [disposables EXCEPT ![Root] = <<>>]
    /\ last' = Outcome("reset", Root, "", NoQ, Ok(Machine, Undefined))
    /\ UNCHANGED <<allowOverride, overrideStrategy, scopes, heap, tasks, passes, closed,
                   tracked, prog>>

Next ==
    \/ \E name \in Programs : \E o \in Program(name).opts : StartDI(name, o)
    \/ BeginScope
    \/ \E c \in 0..scopes : \E rq \in Program(prog).reqs : Get(c, rq[1], rq[2])
    \/ \E c \in 0..scopes : \E rq \in Program(prog).reqs : GetAsync(c, rq[1], rq[2])
    \/ \E t \in TaskIds : Resume(t)
    \/ \E ov \in Program(prog).overrides : Override(ov[1], ov[2], ov[3])
    \/ \E c \in 0..scopes : Shutdown(c)
    \/ \E s \in PassIds : ShutdownResume(s)
    \/ ResetDI

Spec == Init /\ [][Next]_vars

\* ------------------------------------------------------ provider lookup
\* Container.getProvider on a tree whose scopes have registrations of their
\* own: Container.load called on the container that beginScope returns, which
\* the class allows and the exported functions never do.  Every provider is a
\* literal, so that the literal tells which provider a lookup found.
LookupPairs == {<<"S", NoQ>>, <<"S", "sym:x">>}

LookupQueries == LookupPairs \cup {<<"S", "str:Symbol(x)">>, <<"Cfg", NoQ>>}

LookupLits == 2

LookupProvider(pair, v) ==
    Provider("single", pair[1], [NoOpts EXCEPT !.qualifier = pair[2]], NoCtor, NoFactory, v)

\* the registries load can leave: a provider for each pair of a set of pairs
LookupRegs ==
    UNION {{reg \in [S -> {LookupProvider(pair, v) : pair \in S, v \in 1..LookupLits}] :
               \A pair \in S : reg[pair].id = pair[1] /\ reg[pair].qualifier = pair[2]} :
           S \in SUBSET LookupPairs}

LookupInit ==
    /\ providers \in [Conts -> LookupRegs]
    /\ allowOverride = [c \in Conts |-> FALSE]
    /\ overrideStrategy = [c \in Conts |-> "error"]
    /\ singles = [c \in Conts |-> EmptyMap]
    /\ scopedCache = [c \in Conts |-> EmptyMap]
    /\ resolving = [c \in Conts |-> {}]
    /\ disposables = [c \in Conts |-> <<>>]
    /\ scopes = MaxScopes
    /\ heap = [i \in 1..LookupLits |-> Literal]
    /\ tasks = [t \in TaskIds |-> FreeTask]
    /\ passes = [s \in PassIds |-> FreePass]
    /\ closed = [i \in 1..LookupLits |-> 0]
    /\ tracked = 0
    /\ prog = "lookup"
    /\ last = NoCall

\* this.getProvider(id, q) on container c: the outcome is the literal of the
\* provider found, Undefined when none is found
Lookup(c, id, q) ==
    /\ last' = Outcome("getProvider", c, id, q,
                       [st |-> IF getProvider(c, id, q) = NoProvider THEN "none" ELSE "ok",
                        val |-> getProvider(c, id, q).useValue, err |-> "",
                        key |-> keyOf(getProvider(c, id, q).id, getProvider(c, id, q).qualifier)])
    /\ UNCHANGED <<providers, allowOverride, overrideStrategy, singles, scopedCache,
                   resolving, disposables, scopes, heap, tasks, passes, closed, tracked,
                   prog>>

LookupNext == \E c \in Conts : \E rq \in LookupQueries : Lookup(c, rq[1], rq[2])

LookupSpec == LookupInit /\ [][LookupNext]_vars

\* ------------------------------------------------------------ properties
\* A step in which get(id, q) or getAsync(id, q) on container c settles at once;
\* its outcome is last'.
Returns(c, id, q) ==
    \/ Get(c, id, q)
    \/ GetAsync(c, id, q) /\ getAsync(Machine, c, id, q, 1, User, 0).st # "promise"

\* every provider container c sees under key string k is of kind `kind`
OnlyKind(c, k, kind) ==
    \A cc \in {c, Root} : \A pair \in DOMAIN providers[cc] :
        keyOf(pair[1], pair[2]) = k => providers[cc][pair].kind = kind

\* C1: once a key of kind 'single' has been built (the root singleton cache
\* holds it), every get/getAsync of it from the root or from any scope returns
\* the cached instance and builds nothing.
C1_SingleServedFromRootCache ==
    [][\A c \in 0..scopes : \A rq \in Program(prog).reqs :
          LET k == keyOf(rq[1], rq[2])
          IN  (/\ last'.st = "ok"
               /\ getProvider(c, rq[1], rq[2]).kind = "single"
               /\ has(singles[Root], k)
               /\ Returns(c, rq[1], rq[2]))
              => (last'.val = singles[Root][k] /\ heap' = heap)]_vars

\* What a resolution of a key of kind 'scoped' through container c does: with
\* the key in c's scope cache it returns the cached instance and builds nothing;
\* otherwise, for a provider among `which`, it caches the instance it returns in
\* c's scope cache only, and that instance is none that another container holds
\* for the key.
ScopedStep(c, id, q, which) ==
    LET k == keyOf(id, q)
        p == getProvider(c, id, q)
    IN  (/\ last'.st = "ok"
         /\ p.kind = "scoped"
         /\ OnlyKind(c, k, "scoped")
         /\ Returns(c, id, q))
        => IF has(scopedCache[c], k)
           THEN /\ last'.val = scopedCache[c][k]
                /\ heap' = heap
                /\ scopedCache' = scopedCache
           ELSE p \in which =>
                /\ scopedCache' = [scopedCache EXCEPT ![c] = set(@, k, last'.val)]
                /\ \A c2 \in (0..scopes) \ {c} :
                       has(scopedCache[c2], k) => last'.val # scopedCache[c2][k]

\* the providers that construct (useClass or useFactory), and all providers
Constructing == {p \in UNION {{providers[c][x] : x \in DOMAIN providers[c]} : c \in Conts} :
                    p.useValue = Undefined}
AnyProvider  == UNION {{providers[c][x] : x \in DOMAIN providers[c]} : c \in Conts}

\* C2 as stated: for every key of kind 'scoped', two resolutions through one
\* scope return the same instance and resolutions through different scopes
\* return different instances.
C2_ScopedPerScope ==
    [][\A c \in 0..scopes : \A rq \in Program(prog).reqs :
          ScopedStep(c, rq[1], rq[2], AnyProvider)]_vars

\* C2 amended: the same, the instances of different scopes being different
\* when the provider constructs them (useClass or useFactory); a scoped literal
\* value (useValue) is the one value in every scope.
C2_ScopedPerScopeConstructed ==
    [][\A c \in 0..scopes : \A rq \in Program(prog).reqs :
          ScopedStep(c, rq[1], rq[2], Constructing)]_vars

\* two scopes hold their own, different Ctx
C2_Witness ==
    /\ prog = "scoped" /\ scopes = 2
    /\ last.op = "get" /\ last.c = 2 /\ last.id = "Ctx" /\ last.st = "ok"
    /\ has(scopedCache[1], "Ctx") /\ has(scopedCache[2], "Ctx")
    /\ scopedCache[2]["Ctx"] = last.val
    /\ scopedCache[1]["Ctx"] # last.val

Same(provs, i) ==
    {j \in 1..Len(provs) : provs[j].id = provs[i].id /\ provs[j].qualifier = provs[i].qualifier}

\* the greatest member of a non-empty set of numbers
Max(S) == CHOOSE x \in S : \A y \in S : y <= x

\* the instance v, in heap h, is what provider p builds
BuiltBy(p, v, h) ==
    IF p.useValue # Undefined THEN v = p.useValue
    ELSE /\ v \in 1..Len(h)
         /\ h[v].cls = IF p.useFactory # NoFactory THEN p.useFactory.makes ELSE p.useClass

\* the container replaces a registered provider: allowOverride with lastWins
Permits(allow, strategy) == allow /\ strategy = "lastWins"

\* C4: registering a provider for an (identifier, qualifier) that has one throws
\* BeanOverrideError unless the container has allowOverride and the strategy
\* lastWins; then the registration succeeds and the later provider replaces the
\* earlier, so that startDI leaves, for each (identifier, qualifier), the last
\* provider its modules give in argument order; a get that builds the key gets
\* what the registered provider builds.
C4_OverridePolicy ==
    [][/\ \A name \in Programs : \A o \in Program(name).opts :
             LET provs == modules(Program(name).mods)
                 dup   == \E i \in 1..Len(provs) : Same(provs, i) # {i}
             IN  (last'.op = "startDI" /\ StartDI(name, o)) =>
                 IF dup /\ ~Permits(allowOverride'[Root], overrideStrategy'[Root])
                 THEN last'.st = "err" /\ last'.err = "BeanOverrideError"
                 ELSE /\ last'.st = "ok"
                      /\ \A i \in 1..Len(provs) :
                            providers'[Root][<<provs[i].id, provs[i].qualifier>>]
                                = provs[Max(Same(provs, i))]
       /\ \A ov \in Program(prog).overrides :
             LET pair == <<ov[1], ov[3]>>
             IN  (last'.op = "override" /\ Override(ov[1], ov[2], ov[3])) =>
                 IF has(providers[Root], pair)
                        /\ ~Permits(allowOverride[Root], overrideStrategy[Root])
                 THEN /\ last'.st = "err" /\ last'.err = "BeanOverrideError"
                      /\ providers' = providers
                 ELSE /\ last'.st = "ok"
                      /\ providers'[Root][pair].useValue = ov[2]
                      /\ providers'[Root][pair].kind = "single"
       /\ \A c \in 0..scopes : \A rq \in Program(prog).reqs :
             LET k == keyOf(rq[1], rq[2])
                 p == getProvider(c, rq[1], rq[2])
             IN  (/\ last'.st = "ok"
                  /\ p # NoProvider
                  /\ ~has(singles[c], k) /\ ~has(scopedCache[c], k)
                  /\ Returns(c, rq[1], rq[2]))
                 => BuiltBy(p, last'.val, heap')]_vars

\* under lastWins, with S registered by two modules, get(S) is an Impl2
C4_Witness ==
    /\ prog = "policy"
    /\ Permits(allowOverride[Root], overrideStrategy[Root])
    /\ last.op = "get" /\ last.id = "S" /\ last.st = "ok"
    /\ last.val \in 1..Len(heap)
    /\ heap[last.val].cls = "Impl2"

\* the members of a sequence
Elems(seq) == {seq[i] : i \in 1..Len(seq)}

\* The identifiers a synchronous resolution of id in container c resolves, in
\* order: the declared deps, or the get calls of the factory.
DepsOf(c, id) ==
    LET p == getProvider(c, id, NoQ)
    IN  IF p = NoProvider \/ p.useValue # Undefined THEN <<>>
        ELSE IF p.useFactory # NoFactory
        THEN IF p.useFactory.async THEN <<>> ELSE p.useFactory.calls
        ELSE p.deps

\* S with all that its members depend on
RECURSIVE Closure(_, _)
Closure(c, S) ==
    LET T == S \cup UNION {Elems(DepsOf(c, x)) : x \in S}
    IN  IF T = S THEN S ELSE Closure(c, T)

Below(c, id) == Closure(c, Elems(DepsOf(c, id)))

\* the identifiers on a dependency cycle through id
CycleOf(c, id) == {x \in Below(c, id) : id \in Below(c, x)}

\* following the first dependency of each provider from x leads to target
RECURSIVE Leads(_, _, _, _)
Leads(c, x, target, n) ==
    /\ n > 0
    /\ DepsOf(c, x) # <<>>
    /\ \/ Head(DepsOf(c, x)) = target
       \/ Leads(c, Head(DepsOf(c, x)), target, n - 1)

\* What get(id) does when id is on a dependency cycle and not cached in c: it
\* throws, and caches no instance of a key of the cycle; when `circular`, the
\* error is the circular-dependency error naming a key of the cycle.
CycleStep(c, id, circular) ==
    (/\ last'.op = "get"
     /\ id \in Below(c, id)
     /\ ~has(singles[c], keyOf(id, NoQ)) /\ ~has(scopedCache[c], keyOf(id, NoQ))
     /\ Get(c, id, NoQ))
    => /\ last'.st = "err"
       /\ \A x \in CycleOf(c, id) :
             /\ ~has(singles'[root(c)], keyOf(x, NoQ))
             /\ ~has(singles'[c], keyOf(x, NoQ))
             /\ ~has(scopedCache'[c], keyOf(x, NoQ))
       /\ circular =>
             /\ last'.err = "Circular"
             /\ last'.key \in {keyOf(x, NoQ) : x \in CycleOf(c, id)}

PassLogs ==
    {[ev |-> passes[s].ev, top |-> passes[s].top, n0 |-> passes[s].n0,
      solo |-> passes[s].solo, done |-> FALSE] :
        s \in {u \in PassIds : passes[u].state = "await"}}
    \cup (IF last.op = "shutdown"
          THEN {[ev |-> last.ev, top |-> last.top, n0 |-> last.n0, solo |-> last.solo,
                 done |-> TRUE]}
          ELSE {})

\* the positions of log ev at which a cleanup starts
Starts(ev) == {j \in 1..Len(ev) : ev[j].e = "start"}

\* C6: in every shutdown() call each cleanup it starts has ended before it starts
\* the next, and the entries that were in the list when it was called are
\* cleaned in the reverse of the order in which they were recorded: all of them,
\* last recorded first, when no other shutdown() of the container ran meanwhile
\* and the list was not emptied under it.
C6_ReverseOneAtATime ==
    \A L \in PassLogs :
        /\ \A j \in 1..Len(L.ev) :
              /\ L.ev[j].e = "start" =>
                    IF j = Len(L.ev) THEN ~L.done
                    ELSE L.ev[j + 1].e = "end" /\ L.ev[j + 1].seq = L.ev[j].seq
              /\ L.ev[j].e = "end" =>
                    j > 1 /\ L.ev[j - 1].e = "start" /\ L.ev[j - 1].seq = L.ev[j].seq
        /\ \A j1, j2 \in Starts(L.ev) :
              (j1 < j2 /\ L.ev[j1].seq <= L.top /\ L.ev[j2].seq <= L.top)
                  => L.ev[j1].seq > L.ev[j2].seq
        /\ (L.done /\ L.solo /\ \A j \in 1..Len(L.ev) : L.ev[j].e # "skip")
              => Cardinality({j \in Starts(L.ev) : L.ev[j].seq <= L.top}) = L.n0

\* a shutdown() that ran alone has cleaned three entries, last recorded first
C6_Witness ==
    /\ last.op = "shutdown" /\ last.solo
    /\ last.n0 = 3 /\ Len(last.ev) = 6
    /\ last.ev[1].seq > last.ev[3].seq /\ last.ev[3].seq > last.ev[5].seq
    /\ disposables[last.c] = <<>>

\* C7: no cleanup (declared hook or auto-detected method) is invoked twice on
\* one instance, whatever calls are made, overlapping shutdown() calls included.
C7_CleanupAtMostOnce ==
    \A i \in 1..Len(closed) : closed[i] <= 1

\* Where the shutdown() of container c settles having seen a cleanup fail: it
\* settles without an error, it has gone through every index of the list it
\* was called on, and the list and the caches of c are empty.
Suppressed(c) ==
    (\E j \in 1..Len(last'.ev) : last'.ev[j].threw)
    => /\ last'.op = "shutdown" /\ last'.st = "ok"
       /\ Cardinality({j \in 1..Len(last'.ev) : last'.ev[j].e \in {"start", "skip"}})
              = last'.n0
       /\ (last'.solo /\ \A j \in 1..Len(last'.ev) : last'.ev[j].e # "skip")
              => Cardinality(Starts(last'.ev)) = last'.n0
       /\ disposables'[c] = <<>>
       /\ singles'[c] = EmptyMap
       /\ scopedCache'[c] = EmptyMap

\* C8: a cleanup that throws or rejects does not end shutdown(): the call goes
\* on to every remaining entry, empties the disposal list and the caches, and
\* settles without an error.
C8_FailureSuppressed ==
    [][/\ \A s \in PassIds :
             (/\ passes[s].state = "await"
              /\ passes[s].threw
              /\ ShutdownResume(s))
             => \/ /\ passes'[s].state = "await"
                   /\ passes'[s].i < passes[s].i
                   /\ Len(passes'[s].ev) >= Len(passes[s].ev) + 2
                   /\ passes'[s].ev[Len(passes[s].ev) + 1].e = "end"
                   /\ passes'[s].ev[Len(passes[s].ev) + 2].e \in {"start", "skip"}
                \/ passes'[s].state = "free" /\ Suppressed(passes[s].c)
       /\ \A s \in PassIds :
             (/\ passes[s].state = "await"
              /\ ShutdownResume(s)
              /\ passes'[s].state = "free")
             => Suppressed(passes[s].c)
       /\ \A c \in 0..scopes :
             (/\ Shutdown(c)
              /\ ~loop(Machine, c, Len(disposables[c]), <<>>).await)
             => Suppressed(c)]_vars

\* a shutdown() that ran alone has settled after a hook threw, with a cleanup
\* done after the failure
C8_Witness ==
    /\ last.op = "shutdown" /\ last.st = "ok" /\ last.solo
    /\ \E j \in 1..Len(last.ev) :
          /\ last.ev[j].e = "end" /\ last.ev[j].threw
          /\ j < Len(last.ev) /\ last.ev[j + 1].e = "start"
    /\ disposables[last.c] = <<>> /\ singles[last.c] = EmptyMap

\* a provider whose factory returns a promise
IsAsync(p) == p.useValue = Undefined /\ p.useFactory # NoFactory /\ p.useFactory.async

\* C9: for a key whose provider's factory is asynchronous and which is not
\* cached, get throws the sync-against-async error and caches nothing for the
\* key, and getAsync returns a promise that is pending on the factory.
C9_AsyncProvider ==
    [][\A c \in 0..scopes : \A rq \in Program(prog).reqs :
          LET k == keyOf(rq[1], rq[2])
              p == getProvider(c, rq[1], rq[2])
          IN  (/\ IsAsync(p)
               /\ ~has(singles[c], k) /\ ~has(scopedCache[c], k))
              => /\ (last'.op = "get" /\ Get(c, rq[1], rq[2]))
                    => /\ last'.st = "err" /\ last'.err = "SyncAgainstAsync"
                       /\ ~has(singles'[root(c)], k) /\ ~has(scopedCache'[c], k)
                 /\ GetAsync(c, rq[1], rq[2])
                    => getAsync(Machine, c, rq[1], rq[2], 1, User, 0).st = "promise"]_vars

\* C10: override that succeeds leaves a 'single' literal-value provider in the
\* registry and the value in the root singleton cache, and override that throws
\* leaves the cache as it was; every get/getAsync of a key whose provider is
\* such a literal returns the literal.
C10_OverrideSeedsCache ==
    [][/\ \A ov \in Program(prog).overrides :
             (last'.op = "override" /\ Override(ov[1], ov[2], ov[3])) =>
                 IF last'.st = "ok"
                 THEN /\ providers'[Root][<<ov[1], ov[3]>>].kind = "single"
                      /\ providers'[Root][<<ov[1], ov[3]>>].useValue = ov[2]
                      /\ singles'[Root][keyOf(ov[1], ov[3])] = ov[2]
                 ELSE singles' = singles
       /\ \A c \in 0..scopes : \A rq \in Program(prog).reqs :
             LET p == getProvider(c, rq[1], rq[2])
             IN  (/\ last'.st = "ok"
                  /\ p.kind = "single"
                  /\ p.useValue # Undefined
                  /\ Returns(c, rq[1], rq[2]))
                 => last'.val = p.useValue]_vars

\* the caches and disposal lists hold instance v nowhere
Unheld(v) ==
    \A c \in Conts :
        /\ \A k \in DOMAIN singles'[c] : singles'[c][k] # v
        /\ \A k \in DOMAIN scopedCache'[c] : scopedCache'[c][k] # v
        /\ \A i \in 1..Len(disposables'[c]) : disposables'[c][i].instance # v

\* C11: get of an (identifier, qualifier) with no provider in the container or
\* its ancestors registers nothing; for an identifier that is no constructor it
\* throws the missing-provider error naming the key and changes nothing; for a
\* constructor it builds a new object of that class, with one argument per
\* parameter type of the reflection metadata, that no cache and no disposal
\* list holds, leaving caches and lists as they were when the class has no
\* metadata, and it fails only when resolving an argument fails.
C11_FallbackConstruction ==
    [][\A c \in 0..scopes : \A rq \in Program(prog).reqs :
          (/\ last'.op = "get"
           /\ getProvider(c, rq[1], rq[2]) = NoProvider
           /\ Get(c, rq[1], rq[2]))
          => /\ providers' = providers
             /\ IF ~IsFunction(rq[1])
                THEN /\ last'.st = "err" /\ last'.err = "NoProvider"
                     /\ last'.key = keyOf(rq[1], rq[2])
                     /\ heap' = heap /\ singles' = singles
                     /\ scopedCache' = scopedCache /\ disposables' = disposables
                ELSE /\ last'.st = "err" => Meta(rq[1]) # <<>>
                     /\ last'.st = "ok" =>
                           /\ last'.val = Len(heap') /\ last'.val > Len(heap)
                           /\ heap'[last'.val].cls = rq[1]
                           /\ Len(heap'[last'.val].args) = Len(Meta(rq[1]))
                           /\ Unheld(last'.val)
                     /\ Meta(rq[1]) = <<>> =>
                           /\ singles' = singles /\ scopedCache' = scopedCache
                           /\ disposables' = disposables]_vars

\* a step leaves the registries, and the caches and the disposal list of every
\* container but c, as they were
OthersKept(c) ==
    /\ providers' = providers
    /\ \A c2 \in Conts \ {c} :
          /\ singles'[c2] = singles[c2]
          /\ scopedCache'[c2] = scopedCache[c2]
          /\ disposables'[c2] = disposables[c2]

\* the caches and the disposal list of container c are empty after a step
OwnCleared(c) ==
    /\ singles'[c] = EmptyMap
    /\ scopedCache'[c] = EmptyMap
    /\ disposables'[c] = <<>>

\* C12: every stretch of the end()/shutdown() of a scope leaves the registries
\* and the singleton cache, the scope cache and the disposal list of its parent
\* and of every other scope unchanged, and when the call completes the ended
\* scope's own caches and disposal list are empty.
C12_ScopeEndIsLocal ==
    [][/\ \A c \in 1..scopes :
             Shutdown(c) =>
                 /\ OthersKept(c)
                 /\ ~loop(Machine, c, Len(disposables[c]), <<>>).await => OwnCleared(c)
       /\ \A s \in PassIds :
             (/\ passes[s].state = "await"
              /\ passes[s].c # Root
              /\ ShutdownResume(s))
             => /\ OthersKept(passes[s].c)
                /\ passes'[s].state = "free" => OwnCleared(passes[s].c)]_vars

\* the end() of scope 1 has completed, having cleaned its Ctx, while the root
\* and scope 2 still hold theirs
C12_Witness ==
    /\ prog = "scoped" /\ scopes = 2
    /\ last.op = "shutdown" /\ last.c = 1 /\ last.n0 = 1
    /\ scopedCache[1] = EmptyMap /\ disposables[1] = <<>>
    /\ has(scopedCache[Root], "Ctx") /\ has(scopedCache[2], "Ctx")
    /\ Len(disposables[Root]) = 1 /\ Len(disposables[2]) = 1

\* the class of what provider p builds; a literal value is a Literal
Product(p) ==
    IF p.useValue # Undefined THEN "Literal"
    ELSE IF p.useFactory # NoFactory THEN p.useFactory.makes
    ELSE p.useClass

\* The classes of the instances the program can have built for the pair
\* (id, q): what a provider its modules give for the pair builds, the value of
\* an override of the pair, and id itself (fallback construction).
Makes(id, q) ==
    {id}
    \cup {Product(p) : p \in {x \in Elems(modules(Program(prog).mods)) :
                                  x.id = id /\ x.qualifier = q}}
    \cup {"Literal" : ov \in {x \in Program(prog).overrides : x[1] = id /\ x[3] = q}}

\* C13: a get/getAsync of a pair (identifier, qualifier) returns an instance
\* built for that pair, never one built for another pair; and, called with an
\* empty in-flight set, it is rejected as circular only at a key whose
\* identifier really depends on itself.
C13_NoKeyCollision ==
    [][\A c \in 0..scopes : \A rq \in Program(prog).reqs :
          /\ (last'.st = "ok" /\ Returns(c, rq[1], rq[2]))
                => heap'[last'.val].cls \in Makes(rq[1], rq[2])
          /\ (/\ last'.st = "err" /\ last'.err = "Circular"
              /\ resolving[c] = {}
              /\ Returns(c, rq[1], rq[2]))
                => \E x \in {rq[1]} \cup Below(c, rq[1]) :
                       keyOf(x, NoQ) = last'.key /\ x \in Below(c, x)]_vars

\* the number of construction modes provider p sets
Modes(p) ==
    Cardinality({mode \in {"useClass", "useFactory", "useValue"} :
                    \/ mode = "useClass" /\ p.useClass # NoCtor
                    \/ mode = "useFactory" /\ p.useFactory # NoFactory
                    \/ mode = "useValue" /\ p.useValue # Undefined})

\* C14: a get/getAsync that builds (the key is neither cached nor in flight) a
\* provider that sets none, or more than one, of useClass, useFactory and
\* useValue throws the invalid-provider error, constructs nothing and caches
\* nothing.
C14_InvalidShapeRejected ==
    [][\A c \in 0..scopes : \A rq \in Program(prog).reqs :
          LET k == keyOf(rq[1], rq[2])
              p == getProvider(c, rq[1], rq[2])
          IN  (/\ last'.op \in {"get", "getAsync"}
               /\ p # NoProvider
               /\ Modes(p) # 1
               /\ ~has(singles[c], k) /\ ~has(scopedCache[c], k)
               /\ k \notin resolving[c]
               /\ Returns(c, rq[1], rq[2]))
              => /\ last'.st = "err" /\ last'.err = "InvalidProvider"
                 /\ heap' = heap
                 /\ singles' = singles /\ scopedCache' = scopedCache
                 /\ disposables' = disposables]_vars

\* the suspended getAsync calls of container c for key string k on a provider
Suspended(c, k) ==
    {t \in TaskIds : /\ tasks[t].state # "free" /\ tasks[t].cont
                     /\ tasks[t].c = c /\ tasks[t].k = k}

\* a get or getAsync of (id, q) on c, if this step is one, throws the
\* circular-dependency error
Rejected(c, id, q) ==
    /\ Get(c, id, q) => get(Machine, c, id, q, 1).err = "Circular"
    /\ GetAsync(c, id, q) => getAsync(Machine, c, id, q, 1, User, 0).err = "Circular"

\* no container has two suspended getAsync calls for one key
OneBuild ==
    \A c \in Conts : \A t1, t2 \in TaskIds :
        (t1 \in Suspended(c, tasks[t1].k) /\ t2 \in Suspended(c, tasks[t1].k)) => t1 = t2

\* What a second request on c does while a getAsync of the key is suspended
\* on c: it is rejected as circular, in every case when `always`, else when the
\* key is still uncached for c and its provider is still the one being built.
SecondRequest(c, id, q, always) ==
    LET k == keyOf(id, q)
    IN  (/\ Suspended(c, k) # {}
         /\ \/ always
            \/ /\ ~has(singles[c], k) /\ ~has(scopedCache[c], k)
               /\ \E t \in Suspended(c, k) : getProvider(c, id, q) = tasks[t].p)
        => Rejected(c, id, q)

\* C15 as stated: while a getAsync of key K is suspended on a container, every
\* get/getAsync of K on that container throws the circular-dependency error,
\* and no container has two suspended builds of one key.
C15_SecondRequestCircular ==
    [][/\ \A c \in 0..scopes : \A rq \in Program(prog).reqs :
             SecondRequest(c, rq[1], rq[2], TRUE)
       /\ OneBuild']_vars

\* C15 amended: the same, for a key that has not been cached for the container
\* since the getAsync was suspended (by override or by a resolution through
\* another container) and whose provider is still the one the suspended call
\* builds (not replaced by override, not removed by resetDI).
C15_SecondRequestCircularUncached ==
    [][/\ \A c \in 0..scopes : \A rq \in Program(prog).reqs :
             SecondRequest(c, rq[1], rq[2], FALSE)
       /\ OneBuild']_vars

\* with getAsync(Conn) suspended on the root, get(Conn) on the root has thrown
\* the circular-dependency error
C15_Witness ==
    /\ prog = "async"
    /\ last.op = "get" /\ last.c = Root /\ last.id = "Conn"
    /\ last.st = "err" /\ last.err = "Circular"
    /\ Suspended(Root, "Conn") # {}
    /\ ~has(singles[Root], "Conn")

\* C16: no synchronous get exhausts the call stack (the model's RangeError
\* stands for the recursion that no check stops), and a get of an unregistered
\* class whose reflection metadata lead back to the class throws the
\* circular-dependency error.
C16_GetTerminates ==
    [][\A c \in 0..scopes : \A rq \in Program(prog).reqs :
          (last'.op = "get" /\ Get(c, rq[1], rq[2]))
          => /\ last'.err # "RangeError"
             /\ (/\ getProvider(c, rq[1], rq[2]) = NoProvider
                 /\ ~has(singles[c], keyOf(rq[1], rq[2]))
                 /\ ~has(scopedCache[c], keyOf(rq[1], rq[2]))
                 /\ rq[1] \in Elems(Meta(rq[1])))
                => last'.st = "err" /\ last'.err = "Circular"]_vars

\* the provider registered for (id, q) nearest to container c: its own, else
\* its parent's, else none
Nearest(c, id, q) ==
    IF <<id, q>> \in DOMAIN providers[c] THEN providers[c][<<id, q>>]
    ELSE IF c # Root /\ <<id, q>> \in DOMAIN providers[Root] THEN providers[Root][<<id, q>>]
    ELSE NoProvider

\* C17: a lookup of (identifier, qualifier) in a container finds the provider
\* registered for the pair in that container when there is one, whatever its
\* parent has; otherwise the one registered in the parent; otherwise none; what
\* it finds is registered for that very identifier and qualifier.
C17_LookupNearestFirst ==
    last.op = "getProvider" =>
        /\ last.val = Nearest(last.c, last.id, last.q).useValue
        /\ (last.st = "none") = (Nearest(last.c, last.id, last.q) = NoProvider)
        /\ last.st = "ok" => last.key = keyOf(last.id, last.q)
        /\ last.st = "ok" =>
              \E c \in {last.c, Root} :
                  /\ <<last.id, last.q>> \in DOMAIN providers[c]
                  /\ providers[c][<<last.id, last.q>>].useValue = last.val

\* a scope that registers S::Symbol(x) itself has looked it up and found its own
\* provider, not the different one of the root
C17_Witness ==
    /\ last.op = "getProvider" /\ last.c = 1 /\ last.id = "S" /\ last.q = "sym:x"
    /\ <<"S", "sym:x">> \in DOMAIN providers[1]
    /\ <<"S", "sym:x">> \in DOMAIN providers[Root]
    /\ providers[1][<<"S", "sym:x">>] # providers[Root][<<"S", "sym:x">>]
    /\ last.val = providers[1][<<"S", "sym:x">>].useValue

\* the entries a step appends to the disposal list of container c
Appended(c) == SubSeq(disposables'[c], Len(disposables[c]) + 1, Len(disposables'[c]))

\* a step only appends to the disposal list of c and leaves the other lists alone
AppendsTo(c) ==
    /\ Len(disposables'[c]) >= Len(disposables[c])
    /\ SubSeq(disposables'[c], 1, Len(disposables[c])) = disposables[c]
    /\ \A c2 \in Conts \ {c} : disposables'[c2] = disposables[c2]

\* the step appends one entry for key k to the list of c, as its last: the
\* instance v with the cleanup hook provider p declares
TracksOnce(c, p, k, v) ==
    /\ AppendsTo(c)
    /\ Appended(c) # <<>>
    /\ LET d == disposables'[c][Len(disposables'[c])]
       IN  d.key = k /\ d.instance = v /\ d.close = p.onClose
    /\ Cardinality({i \in 1..Len(Appended(c)) : Appended(c)[i].key = k}) = 1

\* C18: a get/getAsync on container c that builds a provider of kind 'single'
\* or 'scoped' appends to the disposal list of c, and to no other list, exactly
\* one entry for the key, with the instance it returns and the provider's
\* onClose hook (a getAsync that was suspended does so when it is resumed and
\* settles); a cache hit appends nothing; a get that builds a 'factory'
\* provider or constructs by fallback appends no entry for its key, and only
\* to the list of c.
C18_OneEntryPerBuild ==
    [][/\ \A c \in 0..scopes : \A rq \in Program(prog).reqs :
             LET k == keyOf(rq[1], rq[2])
                 p == getProvider(c, rq[1], rq[2])
             IN  (last'.st = "ok" /\ Returns(c, rq[1], rq[2]))
                 => IF has(singles[c], k) \/ has(scopedCache[c], k)
                    THEN disposables' = disposables
                    ELSE IF p.kind \in {"single", "scoped"}
                    THEN TracksOnce(c, p, k, last'.val)
                    ELSE /\ AppendsTo(c)
                         /\ \A i \in 1..Len(Appended(c)) : Appended(c)[i].key # k
       /\ \A t \in TaskIds :
             (/\ tasks[t].state = "run" /\ tasks[t].cont /\ tasks[t].err = ""
              /\ tasks[t].p.kind \in {"single", "scoped"}
              /\ Resume(t)
              /\ tasks'[t].state = "free")
             => /\ TracksOnce(tasks[t].c, tasks[t].p, tasks[t].k,
                              disposables'[tasks[t].c][Len(disposables'[tasks[t].c])].instance)
                /\ tasks[t].parent = User =>
                      /\ last'.op = "getAsync" /\ last'.st = "ok"
                      /\ disposables'[tasks[t].c][Len(disposables'[tasks[t].c])].instance
                             = last'.val]_vars

\* get(Cache) on the root has built the single Cache and recorded it, with its
\* onClose hook, as the last entry of the root's disposal list
C18_Witness ==
    /\ prog = "cleanup"
    /\ last.op = "get" /\ last.c = Root /\ last.id = "Cache" /\ last.st = "ok"
    /\ disposables[Root] # <<>>
    /\ disposables[Root][Len(disposables[Root])]
           = [key |-> "Cache", instance |-> last.val, close |-> "throw", seq |-> tracked]
    /\ singles[Root]["Cache"] = last.val

\* What the completion of a shutdown() of c leaves, and what the get/getAsync
\* of a 'single' or 'scoped' key on c that follows it (no call has settled, and
\* none has cached the key, since) returns: a new instance, on which no cleanup
\* has been invoked, for the providers among `which`.
AfterShutdown(which) ==
    /\ \A c \in 0..scopes :
          (Shutdown(c) /\ ~loop(Machine, c, Len(disposables[c]), <<>>).await)
          => OwnCleared(c) /\ providers' = providers
    /\ \A s \in PassIds :
          (passes[s].state = "await" /\ ShutdownResume(s) /\ passes'[s].state = "free")
          => OwnCleared(passes[s].c) /\ providers' = providers
    /\ \A c \in 0..scopes : \A rq \in Program(prog).reqs :
          LET p == getProvider(c, rq[1], rq[2])
          IN  (/\ last.op = "shutdown" /\ last.c = c
               /\ ~has(singles[c], keyOf(rq[1], rq[2]))
               /\ ~has(scopedCache[c], keyOf(rq[1], rq[2]))
               /\ last'.st = "ok"
               /\ p.kind \in {"single", "scoped"}
               /\ p \in which
               /\ Returns(c, rq[1], rq[2]))
              => /\ last'.val > Len(heap)
                 /\ closed'[last'.val] = 0

\* C19 as stated: when shutdown() of a container completes, its disposal list,
\* its singleton cache and its scope cache are empty and the registries are
\* unchanged, and the next get of a 'single' or 'scoped' key on it returns a
\* newly built instance, none that was cleaned up.
C19_ShutdownEmpties ==
    [][AfterShutdown(AnyProvider)]_vars

\* C19 amended: the same, the instance of the next get being new when the
\* provider constructs it (useClass or useFactory); a literal value (useValue)
\* is returned again, cleaned up or not.
C19_ShutdownEmptiesConstructed ==
    [][AfterShutdown(Constructing)]_vars

\* after a shutdownDI() that cleaned the first Db, get(Db) has built a second
C19_Witness ==
    /\ prog = "cleanup"
    /\ last.op = "get" /\ last.c = Root /\ last.id = "Db" /\ last.st = "ok"
    /\ last.val > 1 /\ heap[1].cls = "Db" /\ closed[1] = 1
    /\ closed[last.val] = 0
    /\ singles[Root] = ("Db" :> last.val)
    /\ Len(disposables[Root]) = 1

\* the first method of a class among dispose, close, destroy, in that order
FirstMethod(cls) ==
    LET order == <<"dispose", "close", "destroy">>
        found == {i \in 1..Len(order) : HasMethod(cls, order[i])}
    IN  IF found = {} THEN "none"
        ELSE order[CHOOSE i \in found : \A j \in found : i <= j]

\* The cleanups a stretch of shutdown() has logged from position `from` of its
\* log ev on: each begins with the call of the declared hook when the entry has
\* one, else of the first method of the instance among dispose, close, destroy,
\* else of nothing; and every instance has had as many cleanup calls as the
\* stretch began cleanups of it that call something.
Invoked(ev, from) ==
    /\ \A j \in from..Len(ev) :
          ev[j].e = "start" =>
              ev[j].fn = IF ev[j].hook # "none" THEN "onClose"
                         ELSE FirstMethod(heap[ev[j].obj].cls)
    /\ \A o \in 1..Len(heap) :
          closed'[o] - closed[o]
              = Cardinality({j \in from..Len(ev) :
                                ev[j].e = "start" /\ ev[j].obj = o /\ ev[j].fn # "none"})

\* C20: for each disposal entry shutdown() invokes the declared onClose hook
\* when there is one, and then no method of the instance; with no hook it
\* invokes exactly one method of the instance, the first present among dispose,
\* close, destroy, and nothing when the instance has none of them.
C20_HookElseFirstMethod ==
    [][/\ \A c \in 0..scopes :
             Shutdown(c) => Invoked(loop(Machine, c, Len(disposables[c]), <<>>).ev, 1)
       /\ \A s \in PassIds :
             (passes[s].state = "await" /\ ShutdownResume(s))
             => Invoked(loop(Machine, passes[s].c, passes[s].i - 1,
                             Append(passes[s].ev, Ended(passes[s].seq, passes[s].threw))).ev,
                        Len(passes[s].ev) + 1)]_vars

\* a shutdownDI() that ran alone has called close, not destroy, on the Multi,
\* and only the onClose hook for the Db, which has a close method
C20_Witness ==
    /\ prog = "methods"
    /\ last.op = "shutdown" /\ last.solo
    /\ \E j1, j2 \in Starts(last.ev) :
          /\ heap[last.ev[j1].obj].cls = "Multi" /\ last.ev[j1].fn = "close"
          /\ heap[last.ev[j2].obj].cls = "Db" /\ last.ev[j2].fn = "onClose"
          /\ closed[last.ev[j1].obj] = 1 /\ closed[last.ev[j2].obj] = 1

\* C21: the singleton cache of every container but the root is empty in every
\* state (an instance of a 'single' provider is kept in the root's, whichever
\* container built it), and beginScope() yields a container whose caches,
\* registry and disposal list are empty and whose override policy is that of
\* its parent.
C21_SinglesOnlyAtRoot ==
    /\ [](\A c \in Conts \ {Root} : singles[c] = EmptyMap)
    /\ [][scopes' = scopes + 1 =>
             /\ singles'[scopes'] = EmptyMap
             /\ scopedCache'[scopes'] = EmptyMap
             /\ providers'[scopes'] = EmptyMap
             /\ disposables'[scopes'] = <<>>
             /\ resolving'[scopes'] = {}
             /\ allowOverride'[scopes'] = allowOverride[Root]
             /\ overrideStrategy'[scopes'] = overrideStrategy[Root]]_vars

\* a scope begun under allowOverride with strategy 'error' has that policy and
\* has built the single Repo, recording it in its own disposal list: the root's
\* singleton cache holds the instance, the scope's holds nothing
C21_Witness ==
    /\ prog = "lenient" /\ scopes = 1
    /\ allowOverride[Root] /\ overrideStrategy[Root] = "error"
    /\ allowOverride[1] /\ overrideStrategy[1] = "error"
    /\ last.op = "get" /\ last.c = 1 /\ last.id = "Repo" /\ last.st = "ok"
    /\ singles[Root] = ("Repo" :> last.val)
    /\ singles[1] = EmptyMap
    /\ disposables[1] # <<>> /\ disposables[Root] = <<>>

\* the frames of get/getAsync calls suspended on container c
Executing(c) == {t \in TaskIds : tasks[t].state # "free" /\ tasks[t].c = c}

\* C22: a container on which no get/getAsync call is executing (none is
\* suspended; a synchronous call is over when its step is) has an empty
\* in-flight set, also after a resolution that threw; and a get of a key that
\* follows a failed get of that key on the container throws the
\* circular-dependency error only when the identifier depends on itself.
C22_InFlightEmptyWhenIdle ==
    /\ [](\A c \in Conts : Executing(c) = {} => resolving[c] = {})
    /\ [][\A c \in 0..scopes : \A rq \in Program(prog).reqs :
             (/\ last.op = "get" /\ last.st = "err"
              /\ last.c = c /\ last.id = rq[1] /\ last.q = rq[2]
              /\ Executing(c) = {}
              /\ Get(c, rq[1], rq[2])
              /\ last'.st = "err" /\ last'.err = "Circular")
             => rq[1] \in Below(c, rq[1])]_vars

\* C23: no instance held in the root's singleton cache has had a cleanup
\* invoked on it, so that no get returns a singleton that a shutdown() or an
\* end() has disposed.
C23_NoDisposedSingleton ==
    \A k \in DOMAIN singles[Root] : closed[singles[Root][k]] = 0

\* the dependencies of a provider that constructs a class: its explicit list,
\* else the parameter types of the class
ClassDeps(p) ==
    IF p = NoProvider \/ p.useValue # Undefined \/ p.useFactory # NoFactory
       \/ p.useClass = NoCtor
    THEN <<>>
    ELSE IF p.deps # <<>> THEN p.deps ELSE Meta(p.useClass)

\* C24: no getAsync call fails with the sync-against-async error; a getAsync
\* that builds a class provider one of whose dependencies (explicit or from
\* metadata) is an uncached provider with an asynchronous factory awaits the
\* dependency: it returns a pending promise.
C24_GetAsyncAwaitsDeps ==
    /\ [](last.op = "getAsync" => last.err # "SyncAgainstAsync")
    /\ [][\A c \in 0..scopes : \A rq \in Program(prog).reqs :
             LET p  == getProvider(c, rq[1], rq[2])
                 ds == ClassDeps(p)
             IN  (/\ ~has(singles[c], keyOf(rq[1], rq[2]))
                  /\ ~has(scopedCache[c], keyOf(rq[1], rq[2]))
                  /\ resolving[c] = {}
                  /\ \E i \in 1..Len(ds) :
                        /\ IsAsync(getProvider(c, ds[i], NoQ))
                        /\ ~has(singles[c], keyOf(ds[i], NoQ))
                        /\ ~has(scopedCache[c], keyOf(ds[i], NoQ))
                  /\ GetAsync(c, rq[1], rq[2]))
                 => getAsync(Machine, c, rq[1], rq[2], 1, User, 0).st = "promise"]_vars

\* Of the entries the disposal list of c holds when a shutdown() of c takes its
\* last step, each has had its cleanup begun by that call (its log ev tells),
\* or is in the list after the step.
NoneDropped(c, ev) ==
    \A i \in 1..Len(disposables[c]) :
        \/ \E j \in Starts(ev) : ev[j].seq = disposables[c][i].seq
        \/ \E i2 \in 1..Len(disposables'[c]) : disposables'[c][i2] = disposables[c][i]

\* C25: when a shutdown() of a container completes, having been the only
\* shutdown() of that container while it ran, every entry that is in the
\* container's disposal list, appended before the call or by a get/getAsync
\* while the call was suspended, has had its cleanup begun by the call or stays
\* in the list.
C25_NoEntryLost ==
    [][/\ \A c \in 0..scopes :
             (/\ \A u \in PassIds : passes[u].state = "free" \/ passes[u].c # c
              /\ Shutdown(c)
              /\ ~loop(Machine, c, Len(disposables[c]), <<>>).await)
             => NoneDropped(c, last'.ev)
       /\ \A s \in PassIds :
             (/\ passes[s].state = "await" /\ passes[s].solo
              /\ ShutdownResume(s)
              /\ passes'[s].state = "free")
             => NoneDropped(passes[s].c, last'.ev)]_vars

\* C26: a load that fails with the override conflict leaves the registry it
\* was called on as it was, and a startDI that fails this way leaves the
\* process-wide container that was active before the call in place, with its
\* registry, its policy and its caches.
C26_LoadAllOrNothing ==
    [][\A name \in Programs : \A o \in Program(name).opts :
          LET cfg == configure(o)
              r   == load(EmptyMap, cfg.allowOverride, cfg.overrideStrategy,
                          modules(Program(name).mods))
          IN  (r.st = "err" /\ StartDI(name, o))
              => /\ last'.err = "BeanOverrideError"
                 /\ r.reg = EmptyMap
                 /\ providers'[Root] = providers[Root]
                 /\ allowOverride'[Root] = allowOverride[Root]
                 /\ overrideStrategy'[Root] = overrideStrategy[Root]
                 /\ singles'[Root] = singles[Root]
                 /\ disposables'[Root] = disposables[Root]]_vars

====
